---- MODULE Spec2Model ----
(***************************************************************************)
(* ProfitScout Generic API: the artifact resolution engine of app/main.py  *)
(* and the options-signals router of app/routers/options_signals.py.       *)
(*                                                                         *)
(* The service keeps no state of its own between requests.  The variables  *)
(* hold what one request saw of the two external stores (the bucket        *)
(* listing, the warehouse table), the request's inputs, the handler's      *)
(* local variables when it ended, and its response.                        *)
(* Every action is one handler, run from its first line to its return or   *)
(* raise.  Requests are independent of each other, so a behaviour is the   *)
(* life of one request: it arrives, one handler answers it.                *)
(***************************************************************************)
EXTENDS Integers, Sequences, FiniteSets, TLC

VARIABLES bucket, table, request, locals, response

vars == <<bucket, table, request, locals, response>>

None == "<None>"

(***************************************************************************)
(* Bounds of the model.                                                    *)
(***************************************************************************)
\* the largest number of objects in a bucket snapshot
MaxBlobs == 3
\* the modification times of objects are 1..MaxUpdated (half days since
\* 2024-01-01T00:00Z)
MaxUpdated == 2
\* the largest number of rows in a warehouse snapshot
MaxRows == 3
\* the largest limit / top_n a request asks for
MaxLimit == 2

(***************************************************************************)
(* Strings.  Python's str operations, computed character by character.     *)
(***************************************************************************)
\* the characters the model's strings use, in code point order
Alphabet == " %-./0123456789:ABCDEFGHIJKLMNOPQRSTUVWXYZ_abcdefghijklmnopqrstuvwxyz"
UpperCase == "ABCDEFGHIJKLMNOPQRSTUVWXYZ"
LowerCase == "abcdefghijklmnopqrstuvwxyz"
Digits == "0123456789"

CharAt(s, i) == SubSeq(s, i, i)

IndexIn(c, s) == IF \E i \in 1..Len(s) : CharAt(s, i) = c
                 THEN CHOOSE i \in 1..Len(s) : CharAt(s, i) = c
                 ELSE 0

Ord(c) == IndexIn(c, Alphabet)

DigitChars == {"0", "1", "2", "3", "4", "5", "6", "7", "8", "9"}

IsDigit(c) == c \in DigitChars

DigitVal(c) == IndexIn(c, Digits) - 1

\* str.upper()
UpperChar(c) == IF IndexIn(c, LowerCase) > 0
                THEN CharAt(UpperCase, IndexIn(c, LowerCase))
                ELSE c

RECURSIVE Upper(_)
Upper(s) == IF Len(s) = 0 THEN ""
            ELSE UpperChar(CharAt(s, 1)) \o Upper(SubSeq(s, 2, Len(s)))

\* str.startswith / str.endswith
StartsWith(s, p) == Len(s) >= Len(p) /\ SubSeq(s, 1, Len(p)) = p
EndsWith(s, p) == Len(s) >= Len(p) /\ SubSeq(s, Len(s) - Len(p) + 1, Len(s)) = p

\* p in s
Contains(s, p) == \E i \in 1..(Len(s) - Len(p) + 1) : SubSeq(s, i, i + Len(p) - 1) = p

\* s < t for Python strings (code point order, a proper prefix is smaller)
RECURSIVE StrLessFrom(_, _, _)
StrLessFrom(s, t, i) ==
    IF i > Len(t) THEN FALSE
    ELSE IF i > Len(s) THEN TRUE
    ELSE IF CharAt(s, i) # CharAt(t, i) THEN Ord(CharAt(s, i)) < Ord(CharAt(t, i))
    ELSE StrLessFrom(s, t, i + 1)

StrLess(s, t) == StrLessFrom(s, t, 1)

\* a sequence without its i-th element
RemoveAt(seq, i) == SubSeq(seq, 1, i - 1) \o SubSeq(seq, i + 1, Len(seq))

(***************************************************************************)
(* Calendar dates: datetime.strptime(s, "%Y-%m-%d"), date.isoformat(),     *)
(* strftime("%Y-%m-%d").  A date is a record [y, m, d].                    *)
(***************************************************************************)
IsLeap(y) == (y % 4 = 0 /\ y % 100 # 0) \/ y % 400 = 0

DaysInMonth(y, m) ==
    IF m = 2 THEN (IF IsLeap(y) THEN 29 ELSE 28)
    ELSE IF m \in {4, 6, 9, 11} THEN 30 ELSE 31

RECURSIVE ParseInt(_)
ParseInt(s) == IF Len(s) = 0 THEN 0
               ELSE 10 * ParseInt(SubSeq(s, 1, Len(s) - 1)) + DigitVal(CharAt(s, Len(s)))

AllDigits(s) == \A i \in 1..Len(s) : IsDigit(CharAt(s, i))

\* the position of the second dash of a string "YYYY-M..." or 0
SecondDash(s) == IF Len(s) >= 7 /\ CharAt(s, 7) = "-" THEN 7
                 ELSE IF Len(s) >= 8 /\ CharAt(s, 8) = "-" THEN 8
                 ELSE 0

\* the text of a %d field: one or two digits, or a space and a digit 1..9
DayShape(t) ==
    \/ Len(t) \in {1, 2} /\ AllDigits(t)
    \/ Len(t) = 2 /\ CharAt(t, 1) = " " /\ CharAt(t, 2) \in DigitChars \ {"0"}

\* the number a %d field stands for
DayVal(t) == IF CharAt(t, 1) = " " THEN ParseInt(SubSeq(t, 2, Len(t))) ELSE ParseInt(t)

\* does strptime(s, "%Y-%m-%d") accept the format: four digits, a dash, one
\* or two digits, a dash, a day field, and nothing else
StrptimeShape(s) ==
    /\ Len(s) >= 8
    /\ AllDigits(SubSeq(s, 1, 4))
    /\ CharAt(s, 5) = "-"
    /\ SecondDash(s) > 0
    /\ AllDigits(SubSeq(s, 6, SecondDash(s) - 1))
    /\ DayShape(SubSeq(s, SecondDash(s) + 1, Len(s)))

StrptimeFields(s) ==
    [y |-> ParseInt(SubSeq(s, 1, 4)),
     m |-> ParseInt(SubSeq(s, 6, SecondDash(s) - 1)),
     d |-> DayVal(SubSeq(s, SecondDash(s) + 1, Len(s)))]

\* strptime raises ValueError unless the fields are a date of the calendar
StrptimeOk(s) ==
    /\ StrptimeShape(s)
    /\ LET f == StrptimeFields(s)
       IN /\ f.y >= 1
          /\ f.m \in 1..12
          /\ f.d >= 1
          /\ f.d <= DaysInMonth(f.y, f.m)

Strptime(s) == IF StrptimeOk(s) THEN StrptimeFields(s) ELSE None

\* zero padded decimal of width w
RECURSIVE Pad(_, _)
Pad(n, w) == IF w = 0 THEN ""
             ELSE Pad(n \div 10, w - 1) \o CharAt(Digits, (n % 10) + 1)

\* date.isoformat() and strftime("%Y-%m-%d")
IsoFormat(dt) == Pad(dt.y, 4) \o "-" \o Pad(dt.m, 2) \o "-" \o Pad(dt.d, 2)

DateLess(a, b) ==
    \/ a.y < b.y
    \/ a.y = b.y /\ a.m < b.m
    \/ a.y = b.y /\ a.m = b.m /\ a.d < b.d

\* the day before
Yesterday(dt) ==
    IF dt.d > 1 THEN [dt EXCEPT !.d = dt.d - 1]
    ELSE IF dt.m > 1 THEN [y |-> dt.y, m |-> dt.m - 1, d |-> DaysInMonth(dt.y, dt.m - 1)]
    ELSE [y |-> dt.y - 1, m |-> 12, d |-> 31]

\* the calendar day of a modification time, counted in half days since
\* 2024-01-01T00:00Z
UpdatedDate(u) == [y |-> 2024, m |-> 1, d |-> 1 + (u \div 2)]

(***************************************************************************)
(* app/main.py: the extension policy, the date token, the selector.        *)
(***************************************************************************)
\* DATE_REGEX.search(name): the first four digits, dash, two digits, dash,
\* two digits of the name, or None
DateAt(name, i) ==
    /\ i + 9 <= Len(name)
    /\ AllDigits(SubSeq(name, i, i + 3))
    /\ CharAt(name, i + 4) = "-"
    /\ AllDigits(SubSeq(name, i + 5, i + 6))
    /\ CharAt(name, i + 7) = "-"
    /\ AllDigits(SubSeq(name, i + 8, i + 9))

RECURSIVE DateSearchFrom(_, _)
DateSearchFrom(name, i) ==
    IF i + 9 > Len(name) THEN None
    ELSE IF DateAt(name, i) THEN SubSeq(name, i, i + 9)
    ELSE DateSearchFrom(name, i + 1)

DateSearch(name) == DateSearchFrom(name, 1)

get_preferred_extensions(dataset) ==
    CASE dataset = "recommendations" -> <<".md", ".json">>
      [] dataset = "business-summaries" -> <<".md", ".json">>
      [] dataset = "technicals" -> <<".json">>
      [] dataset = "technicals-analysis" -> <<".json">>
      [] dataset = "news-analysis" -> <<".json">>
      [] dataset = "earnings-call-transcripts" -> <<".md", ".txt">>
      [] dataset = "transcript-analysis" -> <<".md", ".json">>
      [] dataset = "mda-analysis" -> <<".md", ".json">>
      [] dataset = "financials-analysis" -> <<".md", ".json">>
      [] dataset = "fundamentals-analysis" -> <<".md", ".json">>
      [] dataset = "financial-statements" -> <<".json">>
      [] dataset = "key-metrics" -> <<".json">>
      [] dataset = "ratios" -> <<".json">>
      [] dataset = "headline-news" -> <<".json">>
      [] dataset = "prices" -> <<".json">>
      [] dataset = "price-chart-json" -> <<".json">>
      [] dataset = "sec-business" -> <<".md", ".txt">>
      [] dataset = "sec-mda" -> <<".md", ".txt">>
      [] dataset = "sec-risk" -> <<".md", ".txt">>
      [] OTHER -> <<".json", ".md", ".txt">>

\* bucket.list_blobs(prefix=prefix): the objects whose name starts with the
\* prefix, in the order of their names
RECURSIVE SortByName(_)
SortByName(blobs) ==
    IF blobs = {} THEN <<>>
    ELSE LET first == CHOOSE b \in blobs : \A c \in blobs \ {b} : StrLess(b.name, c.name)
         IN <<first>> \o SortByName(blobs \ {first})

list_blobs(bkt, prefix) == SortByName({b \in bkt : StartsWith(b.name, prefix)})

datasets_to_try(dataset) ==
    IF dataset = "key-levels" THEN <<"technicals-analysis", "technicals">>
    ELSE <<dataset>>

RECURSIVE candidate_blobs_from(_, _, _, _)
candidate_blobs_from(bkt, tries, item_id_upper, k) ==
    IF k > Len(tries) THEN <<>>
    ELSE list_blobs(bkt, tries[k] \o "/" \o item_id_upper)
         \o candidate_blobs_from(bkt, tries, item_id_upper, k + 1)

candidate_blobs(bkt, dataset, item_id) ==
    candidate_blobs_from(bkt, datasets_to_try(dataset), Upper(item_id), 1)

\* a filter that keeps an object of any extension, as the least preferred
MatchedExtAny(name, preferred_exts) ==
    IF \E i \in 1..Len(preferred_exts) : EndsWith(name, preferred_exts[i])
    THEN CHOOSE i \in 1..Len(preferred_exts) :
            /\ EndsWith(name, preferred_exts[i])
            /\ \A j \in 1..(i - 1) : ~EndsWith(name, preferred_exts[j])
    ELSE Len(preferred_exts)

\* next((ext for ext in preferred_exts if blob.name.endswith(ext)), None),
\* as the index of that extension in the policy, 0 for None
MatchedExt(name, preferred_exts) ==
    IF \E i \in 1..Len(preferred_exts) : EndsWith(name, preferred_exts[i])
    THEN CHOOSE i \in 1..Len(preferred_exts) :
            /\ EndsWith(name, preferred_exts[i])
            /\ \A j \in 1..(i - 1) : ~EndsWith(name, preferred_exts[j])
    ELSE 0

\* the artifacts list: the candidates with an allowed extension, in listing
\* order, with the parsed date and preferred_exts.index(ext)
RECURSIVE artifacts_of(_, _)
artifacts_of(cands, preferred_exts) ==
    IF Len(cands) = 0 THEN <<>>
    ELSE LET blob == cands[1]
             e == MatchedExt(blob.name, preferred_exts)
             rest == artifacts_of(SubSeq(cands, 2, Len(cands)), preferred_exts)
         IN IF e = 0 THEN rest
            ELSE <<[blob |-> blob,
                    date |-> DateSearch(blob.name),
                    ext_preference |-> e - 1]>> \o rest

\* the sort key (x["date"] or "", x["ext_preference"], x["blob"].updated)
DateOrEmpty(x) == IF x.date = None THEN "" ELSE x.date

KeyLess(a, b) ==
    \/ StrLess(DateOrEmpty(a), DateOrEmpty(b))
    \/ /\ DateOrEmpty(a) = DateOrEmpty(b)
       /\ \/ a.ext_preference < b.ext_preference
          \/ /\ a.ext_preference = b.ext_preference
             /\ a.blob.updated < b.blob.updated

\* artifacts.sort(key=..., reverse=True): descending, and stable (elements
\* with equal keys keep their order)
RECURSIVE SortArtifacts(_)
SortArtifacts(arts) ==
    IF Len(arts) = 0 THEN <<>>
    ELSE LET i == CHOOSE k \in 1..Len(arts) :
                    /\ \A j \in 1..Len(arts) : ~KeyLess(arts[k], arts[j])
                    /\ \A j \in 1..(k - 1) : KeyLess(arts[j], arts[k])
         IN <<arts[i]>> \o SortArtifacts(RemoveAt(arts, i))

\* a scan that takes a date starting with as_of for a match
DateMatchesPrefix(artifact, as_of) ==
    artifact.date # None /\ StartsWith(artifact.date, as_of)

\* artifact["date"] == as_of
DateMatches(artifact, as_of) == artifact.date # None /\ artifact.date = as_of

\* the None of find_best_artifact: no object
NoBlob == [name |-> "", updated |-> 0]

FirstMatch(arts, as_of) ==
    IF \E i \in 1..Len(arts) : DateMatches(arts[i], as_of)
    THEN LET i == CHOOSE k \in 1..Len(arts) :
                    /\ DateMatches(arts[k], as_of)
                    /\ \A j \in 1..(k - 1) : ~DateMatches(arts[j], as_of)
         IN arts[i].blob
    ELSE NoBlob

sorted_artifacts(bkt, dataset, item_id) ==
    SortArtifacts(artifacts_of(candidate_blobs(bkt, dataset, item_id),
                               get_preferred_extensions(dataset)))

find_best_artifact(bkt, dataset, item_id, as_of) ==
    LET arts == sorted_artifacts(bkt, dataset, item_id)
    IN IF Len(arts) = 0 THEN NoBlob
       ELSE IF as_of = "latest" THEN arts[1].blob
       ELSE FirstMatch(arts, as_of)

(***************************************************************************)
(* app/main.py: GET /v1/{dataset}/{id}.                                    *)
(***************************************************************************)
\* blob.public_url
public_url(blob) == "https://storage.googleapis.com/profit-scout-data/" \o blob.name

\* the date string the response's as_of is derived from
as_of_date_str(blob) ==
    IF DateSearch(blob.name) # None THEN DateSearch(blob.name)
    ELSE IsoFormat(UpdatedDate(blob.updated))

\* as_of_datetime.strftime("%Y-%m-%dT00:00:00Z"), for years of four digits
envelope_as_of(blob) == IsoFormat(Strptime(as_of_date_str(blob))) \o "T00:00:00Z"

\* a JSON object is a function from its keys; data.pop(key)
Pop(data, key) == [k \in (DOMAIN data) \ {key} |-> data[k]]

Absent == [kind |-> "absent"]

\* envelope["summary_md"] after the two lookups of a decoded mapping
dict_summary(data) ==
    LET s1 == IF "analysis" \in DOMAIN data THEN data["analysis"] ELSE None
        d1 == IF "analysis" \in DOMAIN data THEN Pop(data, "analysis") ELSE data
    IN IF "summary_md" \in DOMAIN d1 THEN d1["summary_md"] ELSE s1

\* envelope["metrics"] of a decoded mapping: what the pops leave of it
dict_metrics(data) ==
    LET d1 == IF "analysis" \in DOMAIN data THEN Pop(data, "analysis") ELSE data
    IN IF "summary_md" \in DOMAIN d1 THEN Pop(d1, "summary_md") ELSE d1

\* the summary_md and metrics of the envelope, from the object's name and
\* its content: content.text is the decoded body, content.json what
\* json.loads makes of it (kind "invalid" when it raises JSONDecodeError)
envelope_summary(name, content) ==
    IF EndsWith(name, ".md") \/ EndsWith(name, ".txt") THEN content.text
    ELSE IF EndsWith(name, ".json")
    THEN (IF content.json.kind = "invalid" THEN content.text
          ELSE IF content.json.kind = "dict" THEN dict_summary(content.json.value)
          ELSE None)
    ELSE None

envelope_metrics(name, content) ==
    IF EndsWith(name, ".md") \/ EndsWith(name, ".txt") THEN Absent
    ELSE IF EndsWith(name, ".json")
    THEN (IF content.json.kind = "invalid" THEN Absent
          ELSE IF content.json.kind = "dict"
          THEN [kind |-> "dict", value |-> dict_metrics(content.json.value)]
          ELSE content.json)
    ELSE Absent

\* an exception no handler catches: the framework's answer
InternalServerError == [status |-> 500, detail |-> "Internal Server Error"]

\* the handler from the result of find_best_artifact up to the download:
\* the 404, an uncaught exception, or the envelope before the content is
\* read.  fault: which storage call raises ("none", "list", "download")
item_prelude(blob, dataset, id, as_of, fault) ==
    IF fault = "list" THEN InternalServerError
    ELSE IF blob = NoBlob
    THEN [status |-> 404,
          detail |-> [error |-> "Item not found.",
                      hint |-> "No " \o dataset \o " artifact for ID="
                               \o Upper(id) \o " (as_of=" \o as_of \o ")."]]
    ELSE IF ~StrptimeOk(as_of_date_str(blob)) THEN InternalServerError
    ELSE IF fault = "download" THEN InternalServerError
    ELSE [status |-> 200,
          envelope |-> [dataset |-> dataset,
                        id |-> Upper(id),
                        as_of |-> envelope_as_of(blob),
                        summary_md |-> None,
                        artifact_url |-> public_url(blob),
                        source |-> "ProfitScout",
                        disclaimer |-> "Educational only; not investment advice.",
                        metrics |-> Absent]]

\* the rest of the handler: the content decoded, parsed and put into the
\* envelope; UnicodeDecodeError and RecursionError are caught by no handler
fill_envelope(pre, name, content) ==
    IF pre.status # 200 THEN pre
    ELSE IF ~content.utf8 THEN InternalServerError
    ELSE IF EndsWith(name, ".json") /\ content.json.kind = "too_deep"
    THEN InternalServerError
    ELSE [pre EXCEPT !.envelope.summary_md = envelope_summary(name, content),
                     !.envelope.metrics = envelope_metrics(name, content)]

item_response(blob, dataset, id, as_of, content, fault) ==
    fill_envelope(item_prelude(blob, dataset, id, as_of, fault), blob.name, content)

\* did the storage call named by fault run, and so raise
item_failed(blob, fault) ==
    \/ fault = "list"
    \/ fault = "download" /\ blob # NoBlob /\ StrptimeOk(as_of_date_str(blob))

get_dataset_item(bkt, dataset, id, as_of, content, fault) ==
    item_response(find_best_artifact(bkt, dataset, id, as_of),
                  dataset, id, as_of, content, fault)

(***************************************************************************)
(* app/main.py: GET /v1.                                                   *)
(***************************************************************************)
\* the position of the first "/" of a name, 0 when it has none
RECURSIVE FirstSlashFrom(_, _)
FirstSlashFrom(name, i) ==
    IF i > Len(name) THEN 0
    ELSE IF CharAt(name, i) = "/" THEN i
    ELSE FirstSlashFrom(name, i + 1)

\* list_blobs(prefix='', delimiter='/'): the union of the pages' prefixes,
\* each the part of an object's name up to and with its first "/"
listed_prefixes(bkt) ==
    {SubSeq(b.name, 1, FirstSlashFrom(b.name, 1)) :
        b \in {x \in bkt : FirstSlashFrom(x.name, 1) > 0}}

\* p.strip('/')
RECURSIVE StripSlashes(_)
StripSlashes(p) ==
    IF Len(p) > 0 /\ CharAt(p, 1) = "/" THEN StripSlashes(SubSeq(p, 2, Len(p)))
    ELSE IF Len(p) > 0 /\ CharAt(p, Len(p)) = "/" THEN StripSlashes(SubSeq(p, 1, Len(p) - 1))
    ELSE p

\* sorted(...) of a list of strings
RECURSIVE InsertSorted(_, _)
InsertSorted(x, seq) ==
    IF Len(seq) = 0 THEN <<x>>
    ELSE IF StrLess(x, seq[1]) THEN <<x>> \o seq
    ELSE <<seq[1]>> \o InsertSorted(x, SubSeq(seq, 2, Len(seq)))

RECURSIVE SortedStrings(_)
SortedStrings(seq) ==
    IF Len(seq) = 0 THEN <<>>
    ELSE InsertSorted(seq[Len(seq)], SortedStrings(SubSeq(seq, 1, Len(seq) - 1)))

RECURSIVE SeqOfSet(_)
SeqOfSet(S) ==
    IF S = {} THEN <<>>
    ELSE LET x == CHOOSE y \in S : TRUE IN <<x>> \o SeqOfSet(S \ {x})

DefaultDatasets == <<"recommendations", "key-levels", "technicals", "options-signals">>

\* fault: does the listing raise ("none", "list")
list_datasets(bkt, fault) ==
    IF fault = "list"
    THEN [status |-> 500, detail |-> "Could not retrieve datasets."]
    ELSE LET stripped == {StripSlashes(q) : q \in listed_prefixes(bkt)}
             datasets == Append(SortedStrings(SeqOfSet(stripped \ {"manifests"})),
                                "options-signals")
         IN IF Len(datasets) = 0
            THEN [status |-> 200, datasets |-> DefaultDatasets, hint |-> "fallback"]
            ELSE [status |-> 200, datasets |-> SortedStrings(datasets)]

(***************************************************************************)
(* The inputs of GET /v1/{dataset}/{id} and GET /v1.                       *)
(***************************************************************************)
\* the object names a snapshot of the bucket is drawn from, by the dataset
\* of the request that sees it ("" for the request that lists the datasets)
ObjectNames(dataset) ==
    IF dataset = ""
    THEN {"manifests/index.json",
          "recommendations/AAPL.md",
          "technicals/AAPL_2024-05-01.json",
          "technicals-analysis/AAPL_2024-05-01.json",
          "options-signals/AAPL.json",
          "README.txt"}
    ELSE IF dataset = "key-levels"
    THEN {"technicals-analysis/AAPL_2024-13-40.json",
          "technicals-analysis/AAPL_2024-05-01.json",
          "technicals/AAPL_2024-05-01.json",
          "technicals/AAPL_2024-05-02.md",
          "recommendations/AAPL_2024-06-01.json"}
    ELSE {"recommendations/AAPL.md",
          "recommendations/AAPL_2024-04-01.md",
          "recommendations/AAPL_2024-05-01.json",
          "recommendations/AAPL_2024-05-01.md",
          "recommendations/AAPL_v2_2024-05-01.md",
          "recommendations/AAPL_2024-06-01.csv"}

Blobs(dataset) == [name : ObjectNames(dataset), updated : 1..MaxUpdated]

\* the snapshots of the bucket: at most MaxBlobs objects, no name twice
RECURSIVE BucketsOfSize(_, _)
BucketsOfSize(dataset, n) ==
    IF n = 0 THEN {{}}
    ELSE {b \cup {x} : b \in BucketsOfSize(dataset, n - 1), x \in Blobs(dataset)}

Buckets(dataset) ==
    {b \in UNION {BucketsOfSize(dataset, n) : n \in 0..MaxBlobs} :
        \A x, y \in b : x.name = y.name => x = y}

ItemDatasets == {"recommendations", "key-levels"}
ItemIds == {"aapl"}
AsOfs == {"latest", "2024-04-01", "2024-05-01", "2024-06-01", "2024-05"}

JsonDocs ==
    {[kind |-> "dict", value |-> [analysis |-> "A", summary_md |-> "S", score |-> "7"]],
     [kind |-> "dict", value |-> [analysis |-> "A", score |-> "7"]],
     [kind |-> "dict", value |-> [summary_md |-> "S", score |-> "7"]],
     [kind |-> "dict", value |-> [score |-> "7"]],
     [kind |-> "list", value |-> <<"7">>],
     [kind |-> "invalid"],
     [kind |-> "too_deep"]}

\* bytes that are no UTF-8: decode('utf-8') raises UnicodeDecodeError
Undecodable == [text |-> "", utf8 |-> FALSE, json |-> [kind |-> "invalid"]]

\* the bodies an object can have.  utf8: do the bytes decode; text: the
\* decoded body; json: what json.loads makes of it, one of JsonDocs for a
\* .json object (kind "invalid" when it raises JSONDecodeError, "too_deep"
\* when the nesting of the body makes it raise RecursionError); any other
\* object's body is text that is no JSON
Contents(name) ==
    {Undecodable} \cup
    (IF EndsWith(name, ".json")
     THEN {[text |-> "body", utf8 |-> TRUE, json |-> j] : j \in JsonDocs}
     ELSE {[text |-> "body", utf8 |-> TRUE, json |-> [kind |-> "invalid"]]})

NoContent == [text |-> "", utf8 |-> TRUE, json |-> [kind |-> "invalid"]]

StorageFaults == {"none", "list", "download"}

\* what blob.download_as_string() can return where the handler calls it
DownloadsOf(pre, name) == IF pre.status = 200 THEN Contents(name) ELSE {NoContent}

(***************************************************************************)
(* app/routers/options_signals.py: the queries.  A row of the table is a   *)
(* record [run_date, ticker, option_type, expiration_date,                 *)
(* days_to_expiration, setup_quality_signal, is_trend_aligned,             *)
(* is_iv_favorable], its dates records [y, m, d].  A query whose ORDER BY  *)
(* leaves ties may return them in any order: a query is the set of the     *)
(* results it can return.                                                  *)
(***************************************************************************)
\* the text of the exception a failing warehouse call raises
BackendError == "403 Access Denied: Table profitscout-lx6bb:profit_scout.options_analysis_signals"

\* the text of the exception the warehouse raises for a text it cannot parse
SyntaxError == "400 Syntax error: Unexpected keyword FROM"

TABLE_ID == "profitscout-lx6bb.profit_scout.options_analysis_signals"

\* the words of a text are its maximal runs of characters other than the space
\* (the texts below write the line breaks of the source as spaces and the
\* name of the table without its quotation marks)
\* the position of the first space of s at or after i, Len(s) + 1 without one
NextSpace(s, i) ==
    IF \E k \in i..Len(s) : CharAt(s, k) = " "
    THEN CHOOSE k \in i..Len(s) :
            CharAt(s, k) = " " /\ \A j \in i..(k - 1) : CharAt(s, j) # " "
    ELSE Len(s) + 1

\* the position of the first character of s at or after i that is no space,
\* Len(s) + 1 without one
SkipSpaces(s, i) ==
    IF \E k \in i..Len(s) : CharAt(s, k) # " "
    THEN CHOOSE k \in i..Len(s) :
            CharAt(s, k) # " " /\ \A j \in i..(k - 1) : CharAt(s, j) = " "
    ELSE Len(s) + 1

\* the word of s that starts at i
WordAt(s, i) == SubSeq(s, i, NextSpace(s, i) - 1)

\* the start of the word after the one that starts at i
NextWord(s, i) == SkipSpaces(s, NextSpace(s, i))

\* the words of the texts below that cannot stand where a name is expected
SqlKeywords == {"SELECT", "FROM", "WHERE", "AND", "ORDER", "LIMIT"}

\* the select list from the word at i, n words of it read: it ends at FROM,
\* and after FROM comes the name of a table, not another keyword
RECURSIVE SelectList(_, _, _)
SelectList(s, i, n) ==
    IF i > Len(s) THEN FALSE
    ELSE IF WordAt(s, i) \in SqlKeywords
    THEN /\ WordAt(s, i) = "FROM"
         /\ n >= 1
         /\ NextWord(s, i) <= Len(s)
         /\ WordAt(s, NextWord(s, i)) \notin SqlKeywords
    ELSE SelectList(s, NextWord(s, i), n + 1)

\* does the warehouse parse the text of a query as far as its FROM clause
SqlParses(text) ==
    /\ SkipSpaces(text, 1) <= Len(text)
    /\ WordAt(text, SkipSpaces(text, 1)) = "SELECT"
    /\ SelectList(text, NextWord(text, SkipSpaces(text, 1)), 0)

\* client.query(text).result() raises: the warehouse fails, or it refuses
\* the text
query_raises(text, fails) == fails \/ ~SqlParses(text)

\* str(e) of the exception it raises
query_error(text) == IF SqlParses(text) THEN BackendError ELSE SyntaxError

\* the text of the query of get_latest_run_date
latest_query == "SELECT MAX(run_date) as latest_date FROM " \o TABLE_ID

\* base_query: the text the handler starts from, FROM included
base_query(option_type) ==
    " FROM " \o TABLE_ID \o " WHERE run_date = @run_date AND ticker = @ticker"
    \o (IF option_type # "ANY" THEN " AND option_type = @option_type" ELSE "")

\* the text of the window query: its own FROM, then base_query
dte_query(base) ==
    "SELECT expiration_date, days_to_expiration FROM " \o base
    \o " AND days_to_expiration BETWEEN 30 AND 45 ORDER BY days_to_expiration ASC LIMIT 1"

\* the text of the fallback query
fallback_dte_query(base) ==
    "SELECT expiration_date, days_to_expiration FROM " \o base
    \o " ORDER BY ABS(days_to_expiration - 37) ASC LIMIT 1"

\* ORDER BY <tier> DESC, is_trend_aligned DESC, is_iv_favorable DESC
OrderByRank ==
    " ORDER BY CASE setup_quality_signal WHEN 'High' THEN 3 WHEN 'Medium' THEN 2"
    \o " WHEN 'Low' THEN 1 ELSE 0 END DESC, is_trend_aligned DESC, is_iv_favorable DESC"

\* the text of the ranking query of the ticker endpoint
ranking_query(base) ==
    "SELECT *" \o base \o " AND expiration_date = @expiration_date"
    \o OrderByRank \o " LIMIT @top_n"

\* the text of the query of GET /v1/options-signals/top
top_query(option_type) ==
    " SELECT * FROM " \o TABLE_ID \o " WHERE run_date = @run_date "
    \o (IF option_type # None /\ option_type # "" THEN " AND option_type = @option_type"
        ELSE "")
    \o OrderByRank \o " LIMIT @limit "

\* the text of the query of GET /v1/options-signals
list_query(ticker, option_type) ==
    " SELECT DISTINCT ticker FROM " \o TABLE_ID \o " "
    \o " WHERE run_date = @run_date"
    \o (IF ticker # None /\ ticker # "" THEN " AND ticker LIKE @ticker" ELSE "")
    \o (IF option_type # None /\ option_type # "" THEN " AND option_type = @option_type"
        ELSE "")
    \o " ORDER BY ticker"

\* SELECT MAX(run_date): the latest date of the table
MaxRunDate(tbl) ==
    LET dates == {r.run_date : r \in tbl}
    IN CHOOSE d \in dates : \A e \in dates : ~DateLess(d, e)

\* get_latest_run_date(): the date string, or raised (the 500 it raises when
\* the query fails); now is the clock's date, read when the table is empty
get_latest_run_date(tbl, now, fault) ==
    IF query_raises(latest_query, fault = "latest")
    THEN [raised |-> TRUE, value |-> None]
    ELSE [raised |-> FALSE,
          value |-> IF tbl # {} THEN IsoFormat(MaxRunDate(tbl))
                    ELSE IsoFormat(Yesterday(now))]

LatestRunDateError ==
    [status |-> 500, detail |-> "Could not fetch latest run date from BigQuery."]

\* map_row_to_dict(row): the dates as their isoformat()
map_row_to_dict(row) ==
    [row EXCEPT !.run_date = IsoFormat(@), !.expiration_date = IsoFormat(@)]

RECURSIVE MapRows(_)
MapRows(rows) ==
    IF Len(rows) = 0 THEN <<>>
    ELSE <<map_row_to_dict(rows[1])>> \o MapRows(SubSeq(rows, 2, Len(rows)))

\* the rows of WHERE run_date = @run_date AND ticker = @ticker
\* [AND option_type = @option_type]
base_rows(tbl, run_date, ticker, option_type) ==
    {r \in tbl : /\ r.run_date = run_date
                 /\ r.ticker = ticker
                 /\ (option_type = "ANY" \/ r.option_type = option_type)}

\* days_to_expiration BETWEEN 30 AND 45
InWindow(rows) == {r \in rows : r.days_to_expiration >= 30 /\ r.days_to_expiration <= 45}

\* what a well formed window query returns:
\*   ... AND days_to_expiration BETWEEN 30 AND 45
\*   ORDER BY days_to_expiration ASC LIMIT 1
dte_rows(rows) ==
    IF InWindow(rows) = {} THEN {<<>>}
    ELSE {<<r>> : r \in {x \in InWindow(rows) : \A y \in InWindow(rows) :
                            x.days_to_expiration <= y.days_to_expiration}}

Abs(x) == IF x < 0 THEN -x ELSE x

\* what a well formed fallback query returns:
\*   ... ORDER BY ABS(days_to_expiration - 37) ASC LIMIT 1
fallback_dte_rows(rows) ==
    IF rows = {} THEN {<<>>}
    ELSE {<<r>> : r \in {x \in rows : \A y \in rows :
                            Abs(x.days_to_expiration - 37) <= Abs(y.days_to_expiration - 37)}}

\* CASE setup_quality_signal WHEN 'High' THEN 3 ... ELSE 0 END
Tier(q) == CASE q = "High" -> 3
             [] q = "Medium" -> 2
             [] q = "Low" -> 1
             [] OTHER -> 0

BoolRank(b) == IF b THEN 1 ELSE 0

\* an ORDER BY with the trend indicator before the tier
RankBeforeTrendFirst(a, b) ==
    \/ BoolRank(a.is_trend_aligned) > BoolRank(b.is_trend_aligned)
    \/ /\ BoolRank(a.is_trend_aligned) = BoolRank(b.is_trend_aligned)
       /\ \/ Tier(a.setup_quality_signal) > Tier(b.setup_quality_signal)
          \/ /\ Tier(a.setup_quality_signal) = Tier(b.setup_quality_signal)
             /\ BoolRank(a.is_iv_favorable) > BoolRank(b.is_iv_favorable)

\* ORDER BY <tier> DESC, is_trend_aligned DESC, is_iv_favorable DESC: a is
\* strictly before b
RankBefore(a, b) ==
    \/ Tier(a.setup_quality_signal) > Tier(b.setup_quality_signal)
    \/ /\ Tier(a.setup_quality_signal) = Tier(b.setup_quality_signal)
       /\ \/ BoolRank(a.is_trend_aligned) > BoolRank(b.is_trend_aligned)
          \/ /\ BoolRank(a.is_trend_aligned) = BoolRank(b.is_trend_aligned)
             /\ BoolRank(a.is_iv_favorable) > BoolRank(b.is_iv_favorable)

\* the orders ORDER BY can return the rows in
RECURSIVE RankedOrders(_)
RankedOrders(rows) ==
    IF rows = {} THEN {<<>>}
    ELSE UNION {{<<x>> \o rest : rest \in RankedOrders(rows \ {x})} :
                  x \in {r \in rows : \A q \in rows : ~RankBefore(q, r)}}

\* LIMIT n
Limit(seq, n) == SubSeq(seq, 1, IF n < Len(seq) THEN n ELSE Len(seq))

\* the results of ORDER BY ... LIMIT n
ranking_results(rows, n) == {Limit(o, n) : o \in RankedOrders(rows)}

(***************************************************************************)
(* app/routers/options_signals.py: GET /v1/options-signals/{ticker}.       *)
(***************************************************************************)
\* the run date of a request: get_latest_run_date() if as_of == "latest"
\* else as_of
run_date_of(tbl, as_of, now, fault) ==
    IF as_of = "latest" THEN get_latest_run_date(tbl, now, fault)
    ELSE [raised |-> FALSE, value |-> as_of]

\* the block that finds final_expiration_date when the request gives none:
\* dte_results and fallback_results are what the two queries return; the
\* result is the date, or the exception the try block raised ("404" the
\* handler's own HTTPException, "backend" a failing query), which the
\* except clause turns into the same HTTPException(500)
resolve_expiration(base, dte_results, fallback_results, fault) ==
    IF query_raises(dte_query(base), fault = "dte")
    THEN [raised |-> "backend", value |-> None]
    ELSE IF Len(dte_results) > 0
    THEN [raised |-> None, value |-> IsoFormat(dte_results[1].expiration_date)]
    ELSE IF query_raises(fallback_dte_query(base), fault = "fallback")
    THEN [raised |-> "backend", value |-> None]
    ELSE IF Len(fallback_results) > 0
    THEN [raised |-> None, value |-> IsoFormat(fallback_results[1].expiration_date)]
    ELSE [raised |-> "404", value |-> None]

ExpirationError == [status |-> 500, detail |-> "Could not determine expiration date."]

\* not final_expiration_date
NoExpiration(expiration_date) == expiration_date = None \/ expiration_date = ""

\* final_expiration_date after the block: the request's, or the resolved one
final_expiration(expiration_date, resolved) ==
    IF NoExpiration(expiration_date) THEN resolved.value ELSE expiration_date

\* the rows of the ranking query: the base query AND expiration_date = ...
ranking_rows(rows, final_expiration_date) ==
    {r \in rows : r.expiration_date = StrptimeFields(final_expiration_date)}

\* the handler, given the run date and what its queries return
get_ticker_options_signals(ticker, run_date, base, expiration_date, resolved, results, fault) ==
    IF run_date.raised THEN LatestRunDateError
    ELSE IF ~StrptimeOk(run_date.value) THEN InternalServerError
    ELSE IF NoExpiration(expiration_date) /\ resolved.raised # None
    THEN ExpirationError
    ELSE LET final == final_expiration(expiration_date, resolved)
         IN IF ~StrptimeOk(final) THEN InternalServerError
            ELSE IF query_raises(ranking_query(base), fault = "ranking")
            THEN [status |-> 500,
                  detail |-> "Error querying BigQuery for ticker " \o Upper(ticker)
                             \o ": " \o query_error(ranking_query(base))]
            ELSE IF Len(results) = 0
            THEN [status |-> 404,
                  detail |-> "No options signals found for " \o Upper(ticker) \o " on "
                             \o run_date.value \o " with expiration " \o final \o "."]
            ELSE [status |-> 200,
                  dataset |-> "options-signals-item",
                  id |-> Upper(ticker),
                  as_of |-> run_date.value,
                  selected_expiration_date |-> final,
                  items |-> MapRows(results)]

(***************************************************************************)
(* app/routers/options_signals.py: GET /v1/options-signals/top and         *)
(* GET /v1/options-signals.                                                *)
(***************************************************************************)
\* WHERE run_date = @run_date [AND option_type = @option_type]
top_rows(tbl, run_date, option_type) ==
    {r \in tbl : /\ r.run_date = run_date
                 /\ (option_type = None \/ option_type = "" \/ r.option_type = option_type)}

get_top_options_signals(run_date, option_type, results, fault) ==
    IF run_date.raised THEN LatestRunDateError
    ELSE IF ~StrptimeOk(run_date.value) THEN InternalServerError
    ELSE IF query_raises(top_query(option_type), fault = "query")
    THEN [status |-> 500,
          detail |-> "Error querying BigQuery for top signals: "
                     \o query_error(top_query(option_type))]
    ELSE [status |-> 200,
          dataset |-> "options-signals-top",
          as_of |-> run_date.value,
          items |-> MapRows(results)]

\* s LIKE p from the i-th character of s and the j-th of p: "%" stands for
\* any run of characters, "_" for any one character, every other character
\* for itself (the backslash, LIKE's escape, is not a character of the
\* model's strings)
RECURSIVE LikeFrom(_, _, _, _)
LikeFrom(s, i, p, j) ==
    IF j > Len(p) THEN i > Len(s)
    ELSE IF CharAt(p, j) = "%"
    THEN LikeFrom(s, i, p, j + 1) \/ (i <= Len(s) /\ LikeFrom(s, i + 1, p, j))
    ELSE /\ i <= Len(s)
         /\ (CharAt(p, j) = "_" \/ CharAt(p, j) = CharAt(s, i))
         /\ LikeFrom(s, i + 1, p, j + 1)

Like(s, p) == LikeFrom(s, 1, p, 1)

\* SELECT DISTINCT ticker ... WHERE run_date = @run_date
\*   [AND ticker LIKE @ticker] [AND option_type = @option_type] ORDER BY ticker
distinct_tickers(tbl, run_date, ticker, option_type) ==
    SortedStrings(SeqOfSet(
        {r.ticker : r \in {x \in tbl :
            /\ x.run_date = run_date
            /\ (ticker = None \/ ticker = "" \/ Like(x.ticker, Upper(ticker) \o "%"))
            /\ (option_type = None \/ option_type = "" \/ x.option_type = option_type)}}))

RECURSIVE TickerItems(_)
TickerItems(tickers) ==
    IF Len(tickers) = 0 THEN <<>>
    ELSE <<[id |-> tickers[1], href |-> "/v1/options-signals/" \o tickers[1]]>>
         \o TickerItems(SubSeq(tickers, 2, Len(tickers)))

\* the keyword parameters of google.cloud.bigquery.Client.query
ClientQueryKeywords ==
    {"job_config", "job_id", "job_id_prefix", "location", "project", "retry", "timeout",
     "job_retry", "api_method"}

\* the first keyword of a call that Client.query does not take, or None
RECURSIVE UnexpectedKeyword(_)
UnexpectedKeyword(keywords) ==
    IF Len(keywords) = 0 THEN None
    ELSE IF keywords[1] \notin ClientQueryKeywords THEN keywords[1]
    ELSE UnexpectedKeyword(SubSeq(keywords, 2, Len(keywords)))

\* str(e) of the TypeError the call raises for it
TypeErrorText(keyword) ==
    "Client.query() got an unexpected keyword argument '" \o keyword \o "'"

\* the keywords of the handler's call:
\* client.query(query, job_config=..., page_size=limit, page_token=pageToken)
ListQueryKeywords == <<"job_config", "page_size", "page_token">>

\* limit and pageToken go into the call as page_size and page_token; the call
\* raises TypeError before a query is sent, inside the try block
list_options_signals(tbl, run_date, ticker, option_type, limit, pageToken, now, fault) ==
    LET effective == IF run_date # None /\ run_date # ""
                     THEN [raised |-> FALSE, value |-> run_date]
                     ELSE get_latest_run_date(tbl, now, fault)
    IN IF effective.raised THEN LatestRunDateError
       ELSE IF ~StrptimeOk(effective.value) THEN InternalServerError
       ELSE IF UnexpectedKeyword(ListQueryKeywords) # None
       THEN [status |-> 500,
             detail |-> "Error querying BigQuery for distinct tickers: "
                        \o TypeErrorText(UnexpectedKeyword(ListQueryKeywords))]
       ELSE IF query_raises(list_query(ticker, option_type), fault = "query")
       THEN [status |-> 500,
             detail |-> "Error querying BigQuery for distinct tickers: "
                        \o query_error(list_query(ticker, option_type))]
       ELSE [status |-> 200,
             dataset |-> "options-signals",
             items |-> TickerItems(distinct_tickers(tbl, StrptimeFields(effective.value),
                                                    ticker, option_type)),
             nextPageToken |-> None]

(***************************************************************************)
(* The inputs of the options-signals endpoints.                            *)
(***************************************************************************)
\* the first day of the month after dt's
NextMonth(dt) ==
    IF dt.m < 12 THEN [y |-> dt.y, m |-> dt.m + 1, d |-> 1]
    ELSE [y |-> dt.y + 1, m |-> 1, d |-> 1]

\* the date n days after dt
RECURSIVE AddDays(_, _)
AddDays(dt, n) ==
    IF dt.d + n <= DaysInMonth(dt.y, dt.m) THEN [dt EXCEPT !.d = dt.d + n]
    ELSE AddDays(NextMonth(dt), n - (DaysInMonth(dt.y, dt.m) - dt.d + 1))

\* a row of the table: it expires days_to_expiration days after its run
SignalRow(run_date, ticker, option_type, dte, quality, trend, iv) ==
    [run_date |-> run_date, ticker |-> ticker, option_type |-> option_type,
     expiration_date |-> AddDays(run_date, dte), days_to_expiration |-> dte,
     setup_quality_signal |-> quality, is_trend_aligned |-> trend,
     is_iv_favorable |-> iv]

May1 == [y |-> 2024, m |-> 5, d |-> 1]
April30 == [y |-> 2024, m |-> 4, d |-> 30]

\* the rows a snapshot of the table is drawn from, by the endpoint that
\* reads it
SignalRows(endpoint) ==
    IF endpoint = "get_ticker_options_signals"
    THEN {SignalRow(May1, "AAPL", "CALL", 20, "High", TRUE, TRUE),
          SignalRow(May1, "AAPL", "PUT", 24, "Low", FALSE, TRUE),
          SignalRow(May1, "AAPL", "CALL", 33, "Medium", TRUE, FALSE),
          SignalRow(May1, "AAPL", "PUT", 33, "High", FALSE, FALSE),
          SignalRow(May1, "AAPL", "CALL", 45, "Speculative", TRUE, TRUE),
          SignalRow(May1, "AAPL", "CALL", 50, "Low", TRUE, TRUE),
          SignalRow(May1, "MSFT", "CALL", 31, "High", TRUE, TRUE),
          SignalRow(April30, "AAPL", "CALL", 30, "High", TRUE, TRUE)}
    ELSE {SignalRow(May1, "AAPL", "CALL", 33, "Medium", TRUE, FALSE),
          SignalRow(May1, "AAPL", "PUT", 33, "High", FALSE, FALSE),
          SignalRow(May1, "AAPL", "CALL", 45, "Speculative", TRUE, TRUE),
          SignalRow(May1, "AMZN", "PUT", 50, "Low", TRUE, TRUE),
          SignalRow(May1, "MSFT", "CALL", 31, "High", TRUE, TRUE),
          SignalRow(May1, "MSFT", "PUT", 31, "Medium", TRUE, TRUE),
          SignalRow(April30, "AAPL", "CALL", 30, "High", TRUE, TRUE)}

\* the snapshots of the table: at most MaxRows rows
RECURSIVE TablesOfSize(_, _)
TablesOfSize(endpoint, n) ==
    IF n = 0 THEN {{}}
    ELSE {t \cup {r} : t \in TablesOfSize(endpoint, n - 1), r \in SignalRows(endpoint)}

Tables(endpoint) == UNION {TablesOfSize(endpoint, n) : n \in 0..MaxRows}

\* the dates the clock can show
Nows == {[y |-> 2024, m |-> 5, d |-> 2], [y |-> 2024, m |-> 3, d |-> 1]}

\* the clock is read only by get_latest_run_date, of an empty table
ClockReads(tbl, uses_latest, fault) ==
    IF uses_latest /\ tbl = {} /\ fault # "latest" THEN Nows ELSE {May1}

Limits == 0..MaxLimit

NoRequest == [endpoint |-> "none"]
NoLocals == [endpoint |-> "none"]

Init ==
    /\ bucket = {}
    /\ table = {}
    /\ request = NoRequest
    /\ locals = NoLocals
    /\ response = [status |-> 0]

\* no request has been answered yet
Pending == request.endpoint = "none"

GetDatasetItem ==
    /\ Pending
    /\ \E dataset \in ItemDatasets, id \in ItemIds, as_of \in AsOfs :
        \E bkt \in Buckets(dataset) :
        \E blob \in {find_best_artifact(bkt, dataset, id, as_of)} :
        \E fault \in StorageFaults :
        \E pre \in {item_prelude(blob, dataset, id, as_of, fault)} :
        \E content \in DownloadsOf(pre, blob.name) :
         LET r == fill_envelope(pre, blob.name, content)
         IN /\ bucket' = bkt
            /\ request' = [endpoint |-> "get_dataset_item", dataset |-> dataset,
                           id |-> id, as_of |-> as_of, fault |-> fault,
                           content |-> content]
            /\ locals' = [endpoint |-> "get_dataset_item",
                          blob |-> IF fault = "list" THEN NoBlob ELSE blob,
                          failed |-> item_failed(blob, fault)]
            /\ response' = r
            /\ UNCHANGED table

ListDatasets ==
    /\ Pending
    /\ \E bkt \in Buckets(""), fault \in {"none", "list"} :
         /\ bucket' = bkt
         /\ request' = [endpoint |-> "list_datasets", fault |-> fault]
         /\ locals' = [endpoint |-> "list_datasets", failed |-> fault = "list"]
         /\ response' = list_datasets(bkt, fault)
         /\ UNCHANGED table

StorageNext ==
    \/ GetDatasetItem
    \/ ListDatasets

\* the endpoints of app/main.py
StorageSpec == Init /\ [][StorageNext]_vars

\* did the warehouse call named by fault run, and so raise
ticker_failed(run_date, expiration_date, resolved, fault) ==
    \/ fault = "latest" /\ run_date.raised
    \/ /\ ~run_date.raised
       /\ StrptimeOk(run_date.value)
       /\ \/ /\ NoExpiration(expiration_date)
             /\ resolved.raised = "backend"
          \/ /\ fault = "ranking"
             /\ ~(NoExpiration(expiration_date) /\ resolved.raised # None)
             /\ StrptimeOk(final_expiration(expiration_date, resolved))

GetTickerOptionsSignals ==
    /\ Pending
    /\ \E tbl \in Tables("get_ticker_options_signals"),
          ticker \in {"aapl"},
          as_of \in {"latest", "2024-05-01"},
          expiration_date \in {None, "2024-06-03", "2024-07-01"},
          option_type \in {"ANY", "CALL"},
          fault \in {"none", "latest", "dte", "fallback", "ranking"} :
        \E now \in ClockReads(tbl, as_of = "latest", fault) :
        \E run_date \in {run_date_of(tbl, as_of, now, fault)} :
        \E rows \in {IF ~run_date.raised /\ StrptimeOk(run_date.value)
                     THEN base_rows(tbl, StrptimeFields(run_date.value), Upper(ticker),
                                    option_type)
                     ELSE {}} :
        \E base \in {base_query(option_type)} :
        \E dte_results \in (IF SqlParses(dte_query(base)) THEN dte_rows(rows)
                            ELSE {<<>>}) :
        \E fallback_results \in (IF SqlParses(fallback_dte_query(base))
                                 THEN fallback_dte_rows(rows) ELSE {<<>>}) :
        \E resolved \in {IF NoExpiration(expiration_date)
                         THEN resolve_expiration(base, dte_results, fallback_results,
                                                 fault)
                         ELSE [raised |-> None, value |-> None]} :
        \E top_n \in Limits :
        \E results \in (IF StrptimeOk(final_expiration(expiration_date, resolved))
                        THEN ranking_results(
                                ranking_rows(rows, final_expiration(expiration_date,
                                                                    resolved)), top_n)
                        ELSE {<<>>}) :
         /\ table' = tbl
         /\ request' = [endpoint |-> "get_ticker_options_signals", ticker |-> ticker,
                        as_of |-> as_of, expiration_date |-> expiration_date,
                        option_type |-> option_type, top_n |-> top_n, fault |-> fault,
                        now |-> now]
         /\ locals' = [endpoint |-> "get_ticker_options_signals",
                       run_date |-> run_date,
                       rows |-> rows,
                       resolved |-> resolved,
                       failed |-> ticker_failed(run_date, expiration_date, resolved, fault)]
         /\ response' = get_ticker_options_signals(ticker, run_date, base,
                                                   expiration_date, resolved, results,
                                                   fault)
         /\ UNCHANGED bucket

GetTopOptionsSignals ==
    /\ Pending
    /\ \E tbl \in Tables("get_top_options_signals"),
          as_of \in {"latest", "2024-05-01", "05/01/2024"},
          option_type \in {None, "PUT"},
          fault \in {"none", "latest", "query"} :
        \E now \in ClockReads(tbl, as_of = "latest", fault) :
        \E run_date \in {run_date_of(tbl, as_of, now, fault)} :
        \E rows \in {IF ~run_date.raised /\ StrptimeOk(run_date.value)
                     THEN top_rows(tbl, StrptimeFields(run_date.value), option_type)
                     ELSE {}} :
        \E limit \in Limits :
        \E results \in ranking_results(rows, limit) :
         /\ table' = tbl
         /\ request' = [endpoint |-> "get_top_options_signals", as_of |-> as_of,
                        option_type |-> option_type, limit |-> limit, fault |-> fault,
                        now |-> now]
         /\ locals' = [endpoint |-> "get_top_options_signals",
                       run_date |-> run_date,
                       rows |-> rows,
                       failed |-> \/ fault = "latest" /\ run_date.raised
                                  \/ /\ fault = "query"
                                     /\ ~run_date.raised
                                     /\ StrptimeOk(run_date.value)]
         /\ response' = get_top_options_signals(run_date, option_type, results, fault)
         /\ UNCHANGED bucket

ListOptionsSignals ==
    /\ Pending
    /\ \E tbl \in Tables("list_options_signals"),
          run_date \in {None, "2024-05-01", "2024-5- 1"},
          ticker \in {None, "a", "msft", "%z"},
          option_type \in {None, "CALL"},
          limit \in Limits,
          pageToken \in {None},
          fault \in {"none", "latest"} :
        \E now \in ClockReads(tbl, run_date = None, fault) :
         /\ table' = tbl
         /\ request' = [endpoint |-> "list_options_signals", run_date |-> run_date,
                        ticker |-> ticker, option_type |-> option_type,
                        limit |-> limit, pageToken |-> pageToken,
                        fault |-> fault, now |-> now]
         /\ locals' = [endpoint |-> "list_options_signals",
                       failed |-> fault = "latest" /\ run_date = None]
         /\ response' = list_options_signals(tbl, run_date, ticker, option_type, limit,
                                             pageToken, now, fault)
         /\ UNCHANGED bucket

SignalsNext ==
    \/ GetTickerOptionsSignals
    \/ GetTopOptionsSignals
    \/ ListOptionsSignals

\* the endpoints of app/routers/options_signals.py
SignalsSpec == Init /\ [][SignalsNext]_vars

Next ==
    \/ GetDatasetItem
    \/ ListDatasets
    \/ GetTickerOptionsSignals
    \/ GetTopOptionsSignals
    \/ ListOptionsSignals

Spec == Init /\ [][Next]_vars

(***************************************************************************)
(* Properties of GET /v1/{dataset}/{id}.                                   *)
(***************************************************************************)
ItemRequest == request.endpoint = "get_dataset_item"

\* the listing reached find_best_artifact's filter
Listed == ItemRequest /\ request.fault # "list"

\* the listed objects of the request with an extension of the dataset's policy
Allowed ==
    {b \in bucket :
        /\ \E k \in 1..Len(datasets_to_try(request.dataset)) :
              StartsWith(b.name, datasets_to_try(request.dataset)[k] \o "/"
                                 \o Upper(request.id))
        /\ \E k \in 1..Len(get_preferred_extensions(request.dataset)) :
              EndsWith(b.name, get_preferred_extensions(request.dataset)[k])}

\* the rank of an object's extension in the policy: the least index of an
\* extension its name ends with
ExtRank(b) ==
    CHOOSE k \in 1..Len(get_preferred_extensions(request.dataset)) :
        /\ EndsWith(b.name, get_preferred_extensions(request.dataset)[k])
        /\ \A j \in 1..(k - 1) :
              ~EndsWith(b.name, get_preferred_extensions(request.dataset)[j])

EmbeddedDate(b) == IF DateSearch(b.name) = None THEN "" ELSE DateSearch(b.name)

\* a comes strictly before b in the ordering: newer date, then more
\* preferred extension, then more recently modified
ComesBefore(a, b) ==
    \/ StrLess(EmbeddedDate(b), EmbeddedDate(a))
    \/ /\ EmbeddedDate(a) = EmbeddedDate(b)
       /\ \/ ExtRank(a) < ExtRank(b)
          \/ ExtRank(a) = ExtRank(b) /\ a.updated > b.updated

Names(bkt) == {b.name : b \in bkt}

ScenarioNames == {"recommendations/AAPL_2024-05-01.md",
                  "recommendations/AAPL_2024-05-01.json",
                  "recommendations/AAPL_2024-04-01.md"}

\* C1: with as_of = "latest" and at least one listed candidate with an
\* allowed extension, the resolved artifact is first under: newest embedded
\* date, then the more preferred extension, then the latest modification;
\* for the scenario's three objects it is AAPL_2024-05-01.md.
C1_LatestIsFirstByPreference ==
    (Listed /\ request.as_of = "latest" /\ Allowed # {})
    => /\ locals.blob \in Allowed
       /\ \A c \in Allowed : ~ComesBefore(c, locals.blob)
       /\ (request.dataset = "recommendations" /\ Names(bucket) = ScenarioNames)
          => locals.blob.name = "recommendations/AAPL_2024-05-01.md"

\* C2: with as_of a date string, an artifact is resolved exactly when some
\* listed candidate with an allowed extension has that very string as its
\* embedded date, the resolved artifact has it, and otherwise the answer is
\* the 404; the scenario's set resolves 2024-04-01 to AAPL_2024-04-01.md and
\* 2024-06-01 to not-found.
C2_ExactDateMatch ==
    (Listed /\ request.as_of # "latest")
    => /\ (locals.blob # NoBlob) <=> (\E c \in Allowed : DateSearch(c.name) = request.as_of)
       /\ locals.blob # NoBlob
          => (locals.blob \in Allowed /\ DateSearch(locals.blob.name) = request.as_of)
       /\ locals.blob = NoBlob => response.status = 404
       /\ (request.dataset = "recommendations" /\ Names(bucket) = ScenarioNames)
          => /\ request.as_of = "2024-04-01"
                => locals.blob.name = "recommendations/AAPL_2024-04-01.md"
             /\ request.as_of = "2024-06-01" => locals.blob = NoBlob

C2_Witness ==
    /\ Listed
    /\ request.dataset = "recommendations"
    /\ Names(bucket) = ScenarioNames
    /\ request.as_of = "2024-04-01"
    /\ locals.blob.name = "recommendations/AAPL_2024-04-01.md"
    /\ response.status = 200

\* C3: the resolved artifact always ends with an extension of the dataset's
\* policy, and when no listed candidate does (an empty listing included)
\* nothing is resolved and the answer is 404 with error "Item not found.".
C3_OnlyAllowedExtensions ==
    Listed
    => /\ locals.blob # NoBlob => locals.blob \in Allowed
       /\ Allowed = {}
          => /\ locals.blob = NoBlob
             /\ response.status = 404
             /\ response.detail.error = "Item not found."

\* a listing whose newest object has an extension outside the policy
C3_Witness ==
    /\ Listed
    /\ request.as_of = "latest"
    /\ \E b \in bucket : b.name = "recommendations/AAPL_2024-06-01.csv"
    /\ Allowed # {}
    /\ locals.blob \in Allowed
    /\ response.status = 200

\* C10: of a decoded mapping the first present of "analysis", "summary_md"
\* becomes the summary and only that field leaves the payload; with both
\* present the summary is the value of "analysis" and "summary_md" stays in
\* metrics.
C10_FirstNarrativeFieldWins ==
    (ItemRequest /\ response.status = 200 /\ EndsWith(locals.blob.name, ".json")
     /\ request.content.json.kind = "dict")
    => LET data == request.content.json.value
           first == IF "analysis" \in DOMAIN data THEN "analysis"
                    ELSE IF "summary_md" \in DOMAIN data THEN "summary_md"
                    ELSE None
       IN IF first = None
          THEN /\ response.envelope.summary_md = None
               /\ response.envelope.metrics.value = data
          ELSE /\ response.envelope.summary_md = data[first]
               /\ response.envelope.metrics.value = Pop(data, first)

\* C11: whenever an artifact is resolved, the request completes with an
\* envelope: its as_of is the date token of the artifact's name (four digits,
\* dash, two digits, dash, two digits, accepted by pattern only) followed by
\* T00:00:00Z, or, for a name without a token, the date of the artifact's
\* modification time at UTC midnight; deriving as_of never fails the request
\* (a body that cannot be decoded or parsed fails it later, and is set aside).
C11_AsOfDerivationNeverFails ==
    (ItemRequest /\ request.fault = "none" /\ locals.blob # NoBlob
     /\ request.content.utf8 /\ request.content.json.kind # "too_deep")
    => /\ response.status = 200
       /\ response.envelope.as_of =
            (IF DateSearch(locals.blob.name) # None
             THEN DateSearch(locals.blob.name)
             ELSE IsoFormat(UpdatedDate(locals.blob.updated))) \o "T00:00:00Z"

(***************************************************************************)
(* Properties of GET /v1.                                                  *)
(***************************************************************************)
\* C8: when the enumeration of the bucket yields no dataset prefix at all,
\* GET /v1 returns the fixed default dataset list.
C8_EmptyListingFallsBack ==
    (request.endpoint = "list_datasets" /\ request.fault = "none"
     /\ listed_prefixes(bucket) = {})
    => response.datasets = <<"recommendations", "key-levels", "technicals",
                             "options-signals">>

(***************************************************************************)
(* Properties of the options-signals endpoints.                            *)
(***************************************************************************)
TickerRequest == request.endpoint = "get_ticker_options_signals"

\* the handler reached the block that resolves the expiration date
Resolving ==
    /\ TickerRequest
    /\ NoExpiration(request.expiration_date)
    /\ ~locals.run_date.raised
    /\ StrptimeOk(locals.run_date.value)

\* the rows of the table matching run_date, ticker and the option_type
\* constraint of the request
Matching ==
    {r \in table :
        /\ IsoFormat(r.run_date) = locals.run_date.value
        /\ r.ticker = Upper(request.ticker)
        /\ (request.option_type # "ANY" => r.option_type = request.option_type)}

Dtes(rows) == {r.days_to_expiration : r \in rows}

\* C4: with no expiration_date given, when the window query and the
\* nearest-to-37 fallback both return no row, the request ends with 404,
\* not with 500.
C4_NoRowsIsNotFound ==
    (Resolving /\ request.fault = "none" /\ Matching = {})
    => response.status = 404

\* C5: when some matching row has days_to_expiration in 30..45, the resolver
\* selects the expiration of an in-window row with the least
\* days_to_expiration; of {20, 33, 50} the row with 33 is picked.
C5_WindowMinimum ==
    (Resolving /\ request.fault = "none"
     /\ \E r \in Matching : r.days_to_expiration \in 30..45)
    => /\ locals.resolved.raised = None
       /\ \E r \in Matching :
            /\ r.days_to_expiration \in 30..45
            /\ \A q \in Matching : q.days_to_expiration \in 30..45
                                   => r.days_to_expiration <= q.days_to_expiration
            /\ locals.resolved.value = IsoFormat(r.expiration_date)
       /\ Dtes(Matching) = {20, 33, 50} => locals.resolved.value = "2024-06-03"

\* C6: when matching rows exist and none is in the window, and the warehouse
\* does not fail, the resolver returns the expiration of a row whose distance
\* from 37 days is least among all matching rows; the resolver's not-found
\* is raised only for an empty matching set; of {20, 50} the row with 50 is
\* picked.
C6_FallbackNearest37 ==
    (Resolving /\ request.fault = "none")
    => /\ (Matching # {} /\ ~\E r \in Matching : r.days_to_expiration \in 30..45)
          => /\ locals.resolved.raised = None
             /\ \E r \in Matching :
                  /\ \A q \in Matching : Abs(r.days_to_expiration - 37)
                                         <= Abs(q.days_to_expiration - 37)
                  /\ locals.resolved.value = IsoFormat(r.expiration_date)
       /\ locals.resolved.raised = "404" => Matching = {}
       /\ Dtes(Matching) = {20, 50} => locals.resolved.value = "2024-06-20"

\* the tier of a returned row
TierOf(item) ==
    IF item.setup_quality_signal = "High" THEN 3
    ELSE IF item.setup_quality_signal = "Medium" THEN 2
    ELSE IF item.setup_quality_signal = "Low" THEN 1
    ELSE 0

RankedRequest ==
    /\ request.endpoint \in {"get_top_options_signals", "get_ticker_options_signals"}
    /\ response.status = 200

\* the rows the ranked query of the request selects from
Ranked ==
    IF request.endpoint = "get_top_options_signals"
    THEN {r \in table : /\ IsoFormat(r.run_date) = response.as_of
                        /\ (request.option_type # None
                            => r.option_type = request.option_type)}
    ELSE {r \in Matching : IsoFormat(r.expiration_date) = response.selected_expiration_date}

RequestLimit ==
    IF request.endpoint = "get_top_options_signals" THEN request.limit ELSE request.top_n

\* C7: in the output of /top and /{ticker} a row of a higher tier is before
\* every row of a lower tier, whatever the two indicators, and the output is
\* the first limit (top_n) rows of the ordering: no omitted row has a higher
\* tier than a returned one.
C7_TierOrderThenLimit ==
    RankedRequest
    => LET items == response.items
           returned == {items[i] : i \in 1..Len(items)}
       IN /\ \A i, j \in 1..Len(items) :
                TierOf(items[i]) > TierOf(items[j]) => i < j
          /\ returned \subseteq {map_row_to_dict(r) : r \in Ranked}
          /\ Cardinality(returned) = Len(items)
          /\ Len(items) = IF RequestLimit < Cardinality(Ranked)
                          THEN RequestLimit ELSE Cardinality(Ranked)
          /\ \A r \in Ranked : map_row_to_dict(r) \notin returned
                => \A i \in 1..Len(items) : TierOf(r) <= TierOf(items[i])

\* a row of a lower tier with both indicators set is returned after a row of
\* a higher tier with neither, and a row is cut off by the limit
C7_Witness ==
    /\ RankedRequest
    /\ Len(response.items) = 2
    /\ Cardinality(Ranked) > 2
    /\ TierOf(response.items[1]) > TierOf(response.items[2])
    /\ ~response.items[1].is_trend_aligned
    /\ response.items[2].is_trend_aligned

\* C9: when a storage or warehouse call fails, the caller receives a 500
\* whose body does not carry the text of the backend's exception.
C9_BackendFailureIsOpaque500 ==
    (request.endpoint # "none" /\ locals.failed)
    => /\ response.status = 500
       /\ ~Contains(response.detail, BackendError)

====
